---- MODULE Spec2Model ----
(***************************************************************************)
(* Model of the cs5542-lab05 batch ingestion pipeline                      *)
(* (src/scripts/ingest.py) and of the synthetic dataset generator          *)
(* (src/scripts/generate_data.py).                                         *)
(*                                                                         *)
(* Spec     : the pipeline driver main() run repeatedly against one        *)
(*            warehouse, one pipeline log file and the five CSV files.     *)
(* GenSpec  : one execution of generate_data.py on a fresh checkout.       *)
(* RecSpec  : the date fields built by one iteration of the vulnerabilities *)
(*            loop or of the incidents loop, over the full random ranges.  *)
(* DashSpec : page runs of dashboard.py over a warehouse and a log file as *)
(*            pipeline runs leave them, one step per query.                *)
(* Time unit: one warehouse statement execution (clock ticks once per      *)
(*            cursor.execute / executemany call of the current run).       *)
(***************************************************************************)
EXTENDS Integers, Sequences, FiniteSets, TLC

\* ------------------------------------------------------------------ bounds
MaxRuns == 2        \* pipeline runs per behaviour
MaxDisturbances == 2 \* failing calls (connect, open, execute) plus removed
                     \* source files per behaviour
MaxPool == 1         \* generator: actors and assets generated (of 50 and 200)
MaxRecords == 1      \* generator: vulnerabilities, incidents and controls
                     \* generated (of 500, 300 and 100)
MaxPageRuns == 2     \* dashboard: page runs per session
MaxQueryFaults == 2  \* dashboard: failing connection attempts and queries
MaxTypes == 1        \* dashboard: asset types in the loaded ASSETS table (of 6)

\* ------------------------------------------------------- program constants
batch_size == 100

TableNames == <<"THREAT_ACTORS", "ASSETS", "VULNERABILITIES", "INCIDENTS", "SECURITY_CONTROLS">>

NumTables == Len(TableNames)

TableSet == {TableNames[k] : k \in 1..NumTables}

\* generate_data.py: iterations of the five generation loops
NumActors == 50

NumAssets == 200

NumVulns == 500

NumIncidents == 300

NumControls == 100

\* rows written by the generator for each table's file
TargetCount ==
  [t \in TableSet |->
     CASE t = "THREAT_ACTORS" -> NumActors
       [] t = "ASSETS" -> NumAssets
       [] t = "VULNERABILITIES" -> NumVulns
       [] t = "INCIDENTS" -> NumIncidents
       [] t = "SECURITY_CONTROLS" -> NumControls]

fieldnames == <<"timestamp", "feature", "operation", "latency_ms", "record_count", "status">>

\* writer.writeheader(): the header line of pipeline_logs.csv
LogHeader == [kind |-> "header", cells |-> fieldnames]

\* the two provisioning files, split on ';' ("" is a whitespace-only fragment)
SetupSql == <<"CREATE WAREHOUSE", "CREATE DATABASE", "">>

SchemaSql == <<"CREATE TABLE A", "", "CREATE TABLE B", "">>

SetupFiles == <<SetupSql, SchemaSql>>

\* the analytics file, split on ';': each fragment is a sequence of lines,
\* each line a sequence of tokens; a line whose first token starts a comment
\* is written with first token "--"
QueriesSql ==
  << << <<"--", "risk", "view">>,
        <<"CREATE", "OR", "REPLACE", "VIEW", "V_RISK", "AS", "SELECT">> >>,
     << <<"--", "only", "a", "comment">> >>,
     << <<"CREATE", "OR", "REPLACE", "TABLE", "T_SUMMARY", "AS", "SELECT">> >>,
     << <<"SELECT", "COUNT">> >>,
     << <<"CREATE", "VIEW", "V_PLAIN", "AS", "SELECT">> >>,
     << >> >>

Absent == -1

VARIABLES
  pc,            \* position of main(); "idle": no run yet or files changed since
                 \* the last one; "exited": the process of the last run has exited
  runs,          \* number of pipeline runs started
  faults,        \* failing calls injected so far
  removals,      \* source files removed so far
  csv,           \* data/csv/<file>: Absent or the number of data rows
  tables,        \* warehouse table -> sequence of inserted batches
  logExists,     \* os.path.exists(PIPELINE_LOG)
  pipelineLog,   \* lines of pipeline_logs.csv
  conn,          \* "none", "open" or "closed"
  closes,        \* conn.close() calls of the current run
  exitCode,      \* exit status of the last finished run (-1 before any)
  clock,         \* statements executed in the current run
  sfile, sidx,   \* setup_database: file and fragment being processed
  tIdx,          \* ingest_data: position in table_mapping
  row_count,     \* ingest_data: len(df)
  batchI,        \* ingest_data: i of the batch loop
  start_time,    \* ingest_data: clock at the start of the table
  aidx,          \* create_analytics: fragment being processed
  vIdx,          \* verify_data: position in tables
  total_rows,    \* verify_data: running sum
  counts,        \* verify_data: count printed per table
  issued,        \* calls made by the current (or just exited) run, in order
  tablesAtStart, \* tables when the current run started
  logAtStart,    \* Len(pipelineLog) when the current run started
  history,       \* one summary per finished run
  gpc,           \* generate_data.py: section being executed
  gi,            \* generate_data.py: loop variable i
  threat_actors, \* generate_data.py: list of actor records
  df_actors,     \* generate_data.py: frame written to threat_actors.csv
  assets,        \* generate_data.py: list of asset records
  df_assets,     \* generate_data.py: frame written to assets.csv
  vulnerabilities, \* generate_data.py: list of vulnerability records
  incidents,     \* generate_data.py: list of incident records
  controls,      \* generate_data.py: list of control records
  now,           \* generate_data.py: datetime.now(), in hours
  rec,           \* generate_data.py: date fields of the record being built
  dpc,           \* dashboard.py: position of the page run
  dstep,         \* dashboard.py: index into DashPlan of the next step
  pageRuns,      \* dashboard.py: number of page runs started
  qfaults,       \* dashboard.py: connection and query failures injected
  dcache,        \* st.cache_resource of get_snowflake_connection
  dconn,         \* dashboard.py: conn of the page run
  typesInDb,     \* asset_type values of the rows of ASSETS
  all_asset_types, \* dashboard.py: the prefetched asset types
  t3_filters,    \* dashboard.py: t3_start, t3_end, t3_asset_types, t3_severity
  lastQuery,     \* the last statement handed to execute_query
  dIssued,       \* statements handed to execute_query in the page run
  dFailed,       \* of which failed
  dErrors,       \* st.error notices rendered in the page run
  status_metrics \* dashboard.py: the three metrics of the System Status tab

vars == <<pc, runs, faults, removals, csv, tables, logExists, pipelineLog, conn, closes,
          exitCode, clock, sfile, sidx, tIdx, row_count, batchI, start_time,
          aidx, vIdx, total_rows, counts, issued, tablesAtStart, logAtStart,
          history, gpc, gi, threat_actors, df_actors, assets, df_assets,
          vulnerabilities, incidents, controls, now, rec,
          dpc, dstep, pageRuns, qfaults, dcache, dconn, typesInDb, all_asset_types,
          t3_filters, lastQuery, dIssued, dFailed, dErrors, status_metrics>>

genVars == <<gpc, gi, threat_actors, df_actors, assets, df_assets, vulnerabilities,
             incidents, controls>>

recVars == <<now, rec>>

dashVars == <<dpc, dstep, pageRuns, qfaults, dcache, dconn, typesInDb, all_asset_types,
              t3_filters, lastQuery, dIssued, dFailed, dErrors, status_metrics>>

\* what the pipeline leaves alone
nonPipeVars == <<genVars, recVars, dashVars>>

\* ----------------------------------------------------------------- helpers
Min(a, b) == IF a <= b THEN a ELSE b

RECURSIVE RowCount(_)
\* SELECT COUNT(*): rows held by a table given its inserted batches
RowCount(tbl) ==
  IF tbl = <<>> THEN 0
  ELSE (Head(tbl).hi - Head(tbl).lo + 1) + RowCount(Tail(tbl))

\* a slice that is not clipped at the end of the file
BatchUnclipped(r, i, n) == [run |-> r, lo |-> i + 1, hi |-> i + batch_size]

\* rows i+1 .. i+batch_size of the file (df.iloc[i:i+batch_size]), inserted by run r
Batch(r, i, n) == [run |-> r, lo |-> i + 1, hi |-> Min(i + batch_size, n)]

RECURSIVE BatchesFrom(_, _, _)
\* the batches a complete load of n rows by run r inserts, from offset i on
BatchesFrom(r, i, n) ==
  IF i >= n THEN <<>>
  ELSE <<[run |-> r, lo |-> i + 1, hi |-> IF i + 100 <= n THEN i + 100 ELSE n]>>
       \o BatchesFrom(r, i + 100, n)

Timestamp == <<runs, clock>>

\* writer.writerow of log_pipeline: one line, cells in fieldnames order; an
\* operation string is kept as the sequence of pieces it is formatted from
LogRow(feature, operation, latency_ms, record_count, status) ==
  [kind |-> "row", cells |-> <<Timestamp, feature, operation, latency_ms, record_count, status>>]

\* log_pipeline opening the file with mode 'w': the row replaces the file
log_pipeline_rewrite(feature, operation, latency_ms, record_count) ==
  pipelineLog' = <<LogRow(feature, operation, latency_ms, record_count, "SUCCESS")>>

\* log_pipeline(): open(PIPELINE_LOG, 'a'), writer.writerow(...)
log_pipeline(feature, operation, latency_ms, record_count) ==
  pipelineLog' = Append(pipelineLog, LogRow(feature, operation, latency_ms, record_count, "SUCCESS"))

\* init_pipeline_log() without the existence test: rewrites the file every run
init_pipeline_log_always ==
  logExists' = TRUE /\ pipelineLog' = <<LogHeader>>

\* init_pipeline_log(): writes the header only when the file does not exist
init_pipeline_log ==
  IF ~logExists
    THEN logExists' = TRUE /\ pipelineLog' = <<LogHeader>>
    ELSE UNCHANGED <<logExists, pipelineLog>>

\* the environment may still disturb the run (fail a call, remove a file)
CanFail == faults + removals < MaxDisturbances

\* one call made by the run: kind, the file or table it is about, an index, outcome
Ev(kind, target, arg, ok) == [kind |-> kind, target |-> target, arg |-> arg, ok |-> ok]

SqlFileName(f) == IF f = 1 THEN "sql/01_setup.sql" ELSE "sql/02_schema.sql"

QueriesFileName == "sql/04_queries.sql"

RECURSIVE SqlLines(_)
\* [l for l in lines if not l.strip().startswith('--')], joined and split into tokens
SqlLines(lines) ==
  IF lines = <<>> THEN <<>>
  ELSE IF Head(lines) # <<>> /\ Head(Head(lines)) = "--" THEN SqlLines(Tail(lines))
  ELSE Head(lines) \o SqlLines(Tail(lines))

\* 'CREATE OR REPLACE' in statement (the raw fragment, comment lines included)
HasCreateOrReplace(frag) ==
  \E l \in 1..Len(frag) : \E k \in 1..(Len(frag[l]) - 2) :
    frag[l][k] = "CREATE" /\ frag[l][k + 1] = "OR" /\ frag[l][k + 2] = "REPLACE"

\* parts.index(tok): position of the first occurrence
IndexOf(parts, tok) == CHOOSE k \in 1..Len(parts) : parts[k] = tok /\ \A j \in 1..(k - 1) : parts[j] # tok

InParts(parts, tok) == \E k \in 1..Len(parts) : parts[k] = tok

\* the object name create_analytics logs for a fragment
ObjectName(parts) ==
  LET idx == IF InParts(parts, "VIEW") THEN IndexOf(parts, "VIEW") + 1
             ELSE IF InParts(parts, "TABLE") THEN IndexOf(parts, "TABLE") + 1
             ELSE 0
  IN IF 1 <= idx /\ idx <= Len(parts) THEN parts[idx] ELSE "QUERY"

\* ---------------------------------------------------------------- initial
\* the pipeline before its first run
PipeInit ==
  /\ pc = "idle"
  /\ runs = 0
  /\ faults = 0
  /\ removals = 0
  /\ tables = [t \in TableSet |-> <<>>]
  /\ logExists = FALSE
  /\ pipelineLog = <<>>
  /\ conn = "none"
  /\ closes = 0
  /\ exitCode = -1
  /\ clock = 0
  /\ sfile = 1
  /\ sidx = 1
  /\ tIdx = 1
  /\ row_count = 0
  /\ batchI = 0
  /\ start_time = 0
  /\ aidx = 1
  /\ vIdx = 1
  /\ total_rows = 0
  /\ counts = [t \in TableSet |-> Absent]
  /\ issued = <<>>
  /\ tablesAtStart = [t \in TableSet |-> <<>>]
  /\ logAtStart = 0
  /\ history = <<>>

\* the generator not running
GenIdle ==
  /\ gpc = "done"
  /\ gi = 0
  /\ threat_actors = <<>>
  /\ df_actors = <<>>
  /\ assets = <<>>
  /\ df_assets = <<>>
  /\ vulnerabilities = <<>>
  /\ incidents = <<>>
  /\ controls = <<>>

\* no record being built
RecIdle ==
  /\ now = 0
  /\ rec = [kind |-> "none"]

NoQuery == [id |-> "", values |-> {}, ok |-> TRUE]

NoFilters == [start |-> "", end |-> "", asset_types |-> {}, severity |-> {}]

NoMetrics == [shown |-> FALSE, total |-> 0, successful |-> 0, avg_latency |-> 0]

\* the variables of one page run before it starts
PageFresh ==
  /\ dstep = 1
  /\ dconn = "none"
  /\ all_asset_types = {}
  /\ t3_filters = NoFilters
  /\ lastQuery = NoQuery
  /\ dIssued = 0
  /\ dFailed = 0
  /\ dErrors = 0
  /\ status_metrics = NoMetrics

\* no dashboard session
DashIdle ==
  /\ dpc = "idle"
  /\ pageRuns = 0
  /\ qfaults = 0
  /\ dcache = "empty"
  /\ typesInDb = {}
  /\ PageFresh

\* the five files generated, no pipeline run yet
Init ==
  /\ PipeInit
  /\ csv = [t \in TableSet |-> TargetCount[t]]
  /\ GenIdle
  /\ RecIdle
  /\ DashIdle

logVars == <<logExists, pipelineLog>>

connVars == <<conn, closes>>

setupVars == <<sfile, sidx>>

ingestVars == <<tIdx, row_count, batchI, start_time>>

verifyVars == <<vIdx, total_rows, counts>>

runVars == <<runs, removals, tablesAtStart, logAtStart, history, exitCode>>

\* ------------------------------------------------------------ environment
\* generate_data.py run as a whole: (re)writes the five files
Generate ==
  /\ pc \in {"idle", "exited"}
  /\ csv' = [t \in TableSet |-> TargetCount[t]]
  /\ pc' = "idle"
  /\ issued' = <<>>
  /\ UNCHANGED <<faults, tables, logVars, connVars, clock, setupVars, ingestVars,
                 aidx, verifyVars, runVars>>
  /\ UNCHANGED nonPipeVars

\* a source file is removed between runs
RemoveFile(t) ==
  /\ pc \in {"idle", "exited"}
  /\ csv[t] # Absent
  /\ CanFail
  /\ removals' = removals + 1
  /\ csv' = [csv EXCEPT ![t] = Absent]
  /\ pc' = "idle"
  /\ issued' = <<>>
  /\ UNCHANGED <<faults, tables, logVars, connVars, clock, setupVars, ingestVars,
                 aidx, verifyVars, runs, tablesAtStart, logAtStart, history, exitCode>>
  /\ UNCHANGED nonPipeVars

\* ------------------------------------------------------------------ main()
\* main() up to the try block: init_pipeline_log(), conn = None
StartRun ==
  /\ pc \in {"idle", "exited"}
  /\ runs < MaxRuns
  /\ runs' = runs + 1
  /\ init_pipeline_log
  /\ conn' = "none"
  /\ closes' = 0
  /\ clock' = 0
  /\ issued' = <<>>
  /\ tablesAtStart' = tables
  /\ logAtStart' = Len(pipelineLog')
  /\ pc' = "connect"
  /\ UNCHANGED <<faults, removals, csv, tables, exitCode, setupVars, ingestVars, aidx,
                 verifyVars, history>>
  /\ UNCHANGED nonPipeVars

\* connect_snowflake printing the failure and returning None
ConnectReturnsNone == "setup_open"

\* "except Exception: ... raise" of connect_snowflake: where control goes
ConnectRaise == "except"

connect_snowflake ==
  /\ pc = "connect"
  /\ \/ /\ conn' = "open"
        /\ issued' = Append(issued, Ev("connect", "", 0, TRUE))
        /\ sfile' = 1
        /\ pc' = "setup_open"
        /\ UNCHANGED faults
     \/ /\ CanFail
        /\ faults' = faults + 1
        /\ issued' = Append(issued, Ev("connect", "", 0, FALSE))
        /\ pc' = ConnectRaise
        /\ sfile' = 1
        /\ UNCHANGED conn
  /\ UNCHANGED <<csv, tables, logVars, closes, clock, sidx, ingestVars, aidx, verifyVars, runVars>>
  /\ UNCHANGED nonPipeVars

\* setup_database swallowing the exception inside the loop
SetupSwallow == "setup"

\* "except Exception: ... raise" of setup_database: where control goes
SetupRaise == "except"

\* setup_database: with open(...) as f: f.read()
SetupOpen ==
  /\ pc = "setup_open"
  /\ \/ /\ issued' = Append(issued, Ev("open", SqlFileName(sfile), 0, TRUE))
        /\ sidx' = 1
        /\ pc' = "setup"
        /\ UNCHANGED faults
     \/ /\ CanFail
        /\ faults' = faults + 1
        /\ issued' = Append(issued, Ev("open", SqlFileName(sfile), 0, FALSE))
        /\ pc' = SetupRaise
        /\ UNCHANGED sidx
  /\ UNCHANGED <<csv, tables, logVars, connVars, clock, sfile, ingestVars, aidx, verifyVars, runVars>>
  /\ UNCHANGED nonPipeVars

\* setup_database: one iteration of "for statement in ...split(';')"
SetupStmt ==
  /\ pc = "setup"
  /\ sidx <= Len(SetupFiles[sfile])
  /\ IF SetupFiles[sfile][sidx] = ""
       THEN /\ sidx' = sidx + 1
            /\ UNCHANGED <<pc, faults, issued, clock>>
       ELSE \/ /\ issued' = Append(issued, Ev("setup", SqlFileName(sfile), sidx, TRUE))
               /\ clock' = clock + 1
               /\ sidx' = sidx + 1
               /\ UNCHANGED <<pc, faults>>
            \/ /\ CanFail
               /\ faults' = faults + 1
               /\ issued' = Append(issued, Ev("setup", SqlFileName(sfile), sidx, FALSE))
               /\ clock' = clock + 1
               /\ pc' = SetupRaise
               /\ UNCHANGED sidx
  /\ UNCHANGED <<csv, tables, logVars, connVars, sfile, ingestVars, aidx, verifyVars, runVars>>
  /\ UNCHANGED nonPipeVars

\* setup_database: end of one file's loop
SetupFileDone ==
  /\ pc = "setup"
  /\ sidx > Len(SetupFiles[sfile])
  /\ IF sfile < Len(SetupFiles)
       THEN sfile' = sfile + 1 /\ pc' = "setup_open" /\ UNCHANGED tIdx
       ELSE pc' = "ingest" /\ tIdx' = 1 /\ UNCHANGED sfile
  /\ UNCHANGED <<faults, csv, tables, logVars, connVars, clock, sidx, row_count, batchI,
                 start_time, aidx, verifyVars, issued, runVars>>
  /\ UNCHANGED nonPipeVars

\* ------------------------------------------------------------- ingest_data
\* DELETE that removes nothing
DeleteFromKeeps(tbl) == tbl

\* cursor.execute("DELETE FROM <table>"): the table's rows afterwards
DeleteFrom(tbl) == <<>>

\* an INSERT that replaces the rows the table holds
InsertReplaces(tbl, batch) == <<batch>>

\* cursor.executemany("INSERT INTO ..."): the table's rows afterwards
InsertInto(tbl, batch) == Append(tbl, batch)

\* ingest_data swallowing the exception and returning
IngestSwallow == "analytics_open"

\* "except Exception: ... raise" of ingest_data: where control goes
IngestRaise == "except"

\* "break" instead of "continue" on a missing file
MissingFileBreak == "analytics_open"

\* "continue" on a missing file: where control goes
MissingFileNext == "ingest"

\* a missing file emptying its table
SkippedCleared(tbl) == <<>>

\* "if not os.path.exists(csv_path): ... continue": the table's rows afterwards
Skipped(tbl) == tbl

\* one iteration head of "for csv_file, table_name in table_mapping.items()"
IngestTable ==
  /\ pc = "ingest"
  /\ tIdx <= NumTables
  /\ LET t == TableNames[tIdx] IN
       IF csv[t] = Absent
         THEN /\ issued' = Append(issued, Ev("skip", t, 0, TRUE))
              /\ tables' = [tables EXCEPT ![t] = Skipped(@)]
              /\ pc' = MissingFileNext
              /\ tIdx' = tIdx + 1
              /\ UNCHANGED <<row_count, start_time>>
         ELSE /\ start_time' = clock
              /\ row_count' = csv[t]
              /\ pc' = "delete"
              /\ UNCHANGED <<issued, tIdx, tables>>
  /\ UNCHANGED <<faults, csv, logVars, connVars, clock, setupVars, batchI, aidx,
                 verifyVars, runVars>>
  /\ UNCHANGED nonPipeVars

IngestDelete ==
  /\ pc = "delete"
  /\ LET t == TableNames[tIdx] IN
       \/ /\ tables' = [tables EXCEPT ![t] = DeleteFrom(@)]
          /\ issued' = Append(issued, Ev("delete", t, 0, TRUE))
          /\ batchI' = 0
          /\ pc' = "insert"
          /\ UNCHANGED faults
       \/ /\ CanFail
          /\ faults' = faults + 1
          /\ issued' = Append(issued, Ev("delete", t, 0, FALSE))
          /\ pc' = IngestRaise
          /\ UNCHANGED <<tables, batchI>>
  /\ clock' = clock + 1
  /\ UNCHANGED <<csv, logVars, connVars, setupVars, tIdx, row_count, start_time, aidx,
                 verifyVars, runVars>>
  /\ UNCHANGED nonPipeVars

\* one iteration of "for i in range(0, len(df), batch_size)"
IngestInsert ==
  /\ pc = "insert"
  /\ batchI < row_count
  /\ LET t == TableNames[tIdx] IN
       \/ /\ tables' = [tables EXCEPT ![t] = InsertInto(@, Batch(runs, batchI, row_count))]
          /\ issued' = Append(issued, Ev("insert", t, batchI, TRUE))
          /\ batchI' = batchI + batch_size
          /\ UNCHANGED <<pc, faults>>
       \/ /\ CanFail
          /\ faults' = faults + 1
          /\ issued' = Append(issued, Ev("insert", t, batchI, FALSE))
          /\ pc' = IngestRaise
          /\ UNCHANGED <<tables, batchI>>
  /\ clock' = clock + 1
  /\ UNCHANGED <<csv, logVars, connVars, setupVars, tIdx, row_count, start_time, aidx,
                 verifyVars, runVars>>
  /\ UNCHANGED nonPipeVars

\* after the batch loop: cursor.close(), log_pipeline(table_name, 'DATA_LOAD', ...)
IngestLogged ==
  /\ pc = "insert"
  /\ batchI >= row_count
  /\ log_pipeline(TableNames[tIdx], <<"DATA_LOAD">>, clock - start_time, row_count)
  /\ tIdx' = tIdx + 1
  /\ pc' = "ingest"
  /\ UNCHANGED <<faults, csv, tables, logExists, connVars, clock, setupVars, row_count,
                 batchI, start_time, aidx, verifyVars, issued, runVars>>
  /\ UNCHANGED nonPipeVars

\* ingest_data returns
IngestDone ==
  /\ pc = "ingest"
  /\ tIdx > NumTables
  /\ pc' = "analytics_open"
  /\ UNCHANGED <<faults, csv, tables, logVars, connVars, clock, setupVars, ingestVars,
                 aidx, verifyVars, issued, runVars>>
  /\ UNCHANGED nonPipeVars

\* -------------------------------------------------------- create_analytics
\* create_analytics without the inner try: the failure reaches main()
AnalyticsAbort == "except"

\* inner "except Exception" of create_analytics: where control goes
AnalyticsSkip == "analytics"

AnalyticsOpen ==
  /\ pc = "analytics_open"
  /\ \/ /\ issued' = Append(issued, Ev("open", QueriesFileName, 0, TRUE))
        /\ aidx' = 1
        /\ pc' = "analytics"
        /\ UNCHANGED faults
     \/ /\ CanFail
        /\ faults' = faults + 1
        /\ issued' = Append(issued, Ev("open", QueriesFileName, 0, FALSE))
        /\ pc' = "except"
        /\ UNCHANGED aidx
  /\ UNCHANGED <<csv, tables, logVars, connVars, clock, setupVars, ingestVars, verifyVars, runVars>>
  /\ UNCHANGED nonPipeVars

\* one iteration of "for statement in queries_sql.split(';')"
AnalyticsStmt ==
  /\ pc = "analytics"
  /\ aidx <= Len(QueriesSql)
  /\ LET statement == QueriesSql[aidx]
         parts == SqlLines(statement)
     IN IF parts = <<>>
          THEN /\ aidx' = aidx + 1
               /\ UNCHANGED <<pc, faults, issued, clock, pipelineLog>>
          ELSE \/ /\ issued' = Append(issued, Ev("analytics", QueriesFileName, aidx, TRUE))
                  /\ clock' = clock + 1
                  /\ IF HasCreateOrReplace(statement)
                       THEN log_pipeline("ANALYTICS", <<"CREATE_", ObjectName(parts)>>, 1, 0)
                       ELSE UNCHANGED pipelineLog
                  /\ aidx' = aidx + 1
                  /\ UNCHANGED <<pc, faults>>
               \/ /\ CanFail
                  /\ faults' = faults + 1
                  /\ issued' = Append(issued, Ev("analytics", QueriesFileName, aidx, FALSE))
                  /\ clock' = clock + 1
                  /\ pc' = AnalyticsSkip
                  /\ aidx' = aidx + 1
                  /\ UNCHANGED pipelineLog
  /\ UNCHANGED <<csv, tables, logExists, connVars, setupVars, ingestVars, verifyVars, runVars>>
  /\ UNCHANGED nonPipeVars

\* create_analytics returns
AnalyticsDone ==
  /\ pc = "analytics"
  /\ aidx > Len(QueriesSql)
  /\ vIdx' = 1
  /\ total_rows' = 0
  /\ counts' = [t \in TableSet |-> Absent]
  /\ pc' = "verify"
  /\ UNCHANGED <<faults, csv, tables, logVars, connVars, clock, setupVars, ingestVars,
                 aidx, issued, runVars>>
  /\ UNCHANGED nonPipeVars

\* ------------------------------------------------------------- verify_data
\* verify_data re-raising like the other steps
VerifyReraise == "except"

\* "except Exception" of verify_data (no raise): where control goes
VerifyCaught == "finish"

\* one iteration of "for table in tables"
VerifyCount ==
  /\ pc = "verify"
  /\ vIdx <= NumTables
  /\ LET t == TableNames[vIdx] IN
       \/ /\ issued' = Append(issued, Ev("count", t, 0, TRUE))
          /\ counts' = [counts EXCEPT ![t] = RowCount(tables[t])]
          /\ total_rows' = total_rows + RowCount(tables[t])
          /\ vIdx' = vIdx + 1
          /\ UNCHANGED <<pc, faults>>
       \/ /\ CanFail
          /\ faults' = faults + 1
          /\ issued' = Append(issued, Ev("count", t, 0, FALSE))
          /\ pc' = VerifyCaught
          /\ UNCHANGED <<counts, total_rows, vIdx>>
  /\ clock' = clock + 1
  /\ UNCHANGED <<csv, tables, logVars, connVars, setupVars, ingestVars, aidx, runVars>>
  /\ UNCHANGED nonPipeVars

\* after the loop: log_pipeline('PIPELINE', 'VERIFICATION', 0, total_rows)
VerifyLogged ==
  /\ pc = "verify"
  /\ vIdx > NumTables
  /\ log_pipeline("PIPELINE", <<"VERIFICATION">>, 0, total_rows)
  /\ pc' = "finish"
  /\ UNCHANGED <<faults, csv, tables, logExists, connVars, clock, setupVars, ingestVars,
                 aidx, verifyVars, issued, runVars>>
  /\ UNCHANGED nonPipeVars

\* ------------------------------------------------------------ end of main()
\* summary of the run that is ending
RunSummary(code) ==
  [exit |-> code,
   present |-> Cardinality({t \in TableSet : csv[t] # Absent}),
   verifyFailed |-> \E k \in 1..Len(issued) : issued[k].kind = "count" /\ ~issued[k].ok]

\* the finally block closing without testing conn
CloseConnUnguarded == conn' = "closed" /\ closes' = closes + 1

\* "finally: if conn: conn.close()"
CloseConn ==
  IF conn = "open"
    THEN conn' = "closed" /\ closes' = closes + 1
    ELSE UNCHANGED <<conn, closes>>

\* the try block completed: falls through finally, process exits with 0
MainFinish ==
  /\ pc = "finish"
  /\ CloseConn
  /\ exitCode' = 0
  /\ history' = Append(history, RunSummary(0))
  /\ pc' = "exited"
  /\ UNCHANGED <<runs, faults, removals, csv, tables, logVars, clock, setupVars, ingestVars, aidx,
                 verifyVars, issued, tablesAtStart, logAtStart>>
  /\ UNCHANGED nonPipeVars

\* "except Exception: exit(1)", then finally
MainExcept ==
  /\ pc = "except"
  /\ CloseConn
  /\ exitCode' = 1
  /\ history' = Append(history, RunSummary(1))
  /\ pc' = "exited"
  /\ UNCHANGED <<runs, faults, removals, csv, tables, logVars, clock, setupVars, ingestVars, aidx,
                 verifyVars, issued, tablesAtStart, logAtStart>>
  /\ UNCHANGED nonPipeVars

Next ==
  \/ Generate
  \/ \E t \in TableSet : RemoveFile(t)
  \/ StartRun
  \/ connect_snowflake
  \/ SetupOpen
  \/ SetupStmt
  \/ SetupFileDone
  \/ IngestTable
  \/ IngestDelete
  \/ IngestInsert
  \/ IngestLogged
  \/ IngestDone
  \/ AnalyticsOpen
  \/ AnalyticsStmt
  \/ AnalyticsDone
  \/ VerifyCount
  \/ VerifyLogged
  \/ MainFinish
  \/ MainExcept

Spec == Init /\ [][Next]_vars

\* ========================================================== generate_data.py
\* Only the fields the loader and the references depend on are kept in a
\* record; the loops are cut off at MaxPool / MaxRecords iterations.
pipeVars == <<pc, runs, faults, removals, tables, logExists, pipelineLog, conn, closes,
              exitCode, clock, sfile, sidx, tIdx, row_count, batchI, start_time,
              aidx, vIdx, total_rows, counts, issued, tablesAtStart, logAtStart,
              history>>

\* what the generator loops leave alone
nonGenVars == <<pipeVars, recVars, dashVars>>

\* f'TA{i:03d}', f'AST{i:04d}', ...: prefix and number
ActorId(i) == <<"TA", i>>

AssetId(i) == <<"AST", i>>

VulnId(i) == <<"VUL", i>>

IncidentId(i) == <<"INC", i>>

ControlId(i) == <<"CTL", i>>

\* round(random.uniform(1.0, 10.0), 1), in tenths
Scores == 10..100

\* thresholds compared with > instead of >=
SeverityStrict(cvss_score) ==
  IF cvss_score > 90 THEN "Critical"
  ELSE IF cvss_score > 70 THEN "High"
  ELSE IF cvss_score > 40 THEN "Medium"
  ELSE "Low"

\* the if/elif chain on cvss_score (score in tenths)
Severity(cvss_score) ==
  IF cvss_score >= 90 THEN "Critical"
  ELSE IF cvss_score >= 70 THEN "High"
  ELSE IF cvss_score >= 40 THEN "Medium"
  ELSE "Low"

\* df[col].tolist(), as the set random.choice draws from
Column(frame, col) == {frame[k][col] : k \in 1..Len(frame)}

\* identifiers drawn by number from 0..len instead of from the frame
AssetChoicesByNumber == {AssetId(i) : i \in 0..Len(df_assets)}

\* random.choice(df_assets['asset_id'].tolist())
AssetChoices == Column(df_assets, "asset_id")

\* random.choice(df_actors['actor_id'].tolist())
ActorChoices == Column(df_actors, "actor_id")

\* range(1, n + 1) cut off at cap iterations
LoopLimit(n, cap) == Min(n, cap)

\* a fresh checkout: no data files, generator about to start
GenInit ==
  /\ PipeInit
  /\ csv = [t \in TableSet |-> Absent]
  /\ gpc = "actors"
  /\ gi = 1
  /\ threat_actors = <<>>
  /\ df_actors = <<>>
  /\ assets = <<>>
  /\ df_assets = <<>>
  /\ vulnerabilities = <<>>
  /\ incidents = <<>>
  /\ controls = <<>>
  /\ RecIdle
  /\ DashIdle

GenActor ==
  /\ gpc = "actors"
  /\ gi <= LoopLimit(NumActors, MaxPool)
  /\ threat_actors' = Append(threat_actors, [actor_id |-> ActorId(gi)])
  /\ gi' = gi + 1
  /\ UNCHANGED <<gpc, df_actors, assets, df_assets, vulnerabilities, incidents, controls, csv>>
  /\ UNCHANGED nonGenVars

\* df_actors = pd.DataFrame(threat_actors); df_actors.to_csv(...)
GenActorsWritten ==
  /\ gpc = "actors"
  /\ gi > LoopLimit(NumActors, MaxPool)
  /\ df_actors' = threat_actors
  /\ csv' = [csv EXCEPT !["THREAT_ACTORS"] = Len(threat_actors)]
  /\ gpc' = "assets"
  /\ gi' = 1
  /\ UNCHANGED <<threat_actors, assets, df_assets, vulnerabilities, incidents, controls>>
  /\ UNCHANGED nonGenVars

GenAsset ==
  /\ gpc = "assets"
  /\ gi <= LoopLimit(NumAssets, MaxPool)
  /\ assets' = Append(assets, [asset_id |-> AssetId(gi)])
  /\ gi' = gi + 1
  /\ UNCHANGED <<gpc, threat_actors, df_actors, df_assets, vulnerabilities, incidents, controls, csv>>
  /\ UNCHANGED nonGenVars

GenAssetsWritten ==
  /\ gpc = "assets"
  /\ gi > LoopLimit(NumAssets, MaxPool)
  /\ df_assets' = assets
  /\ csv' = [csv EXCEPT !["ASSETS"] = Len(assets)]
  /\ gpc' = "vulns"
  /\ gi' = 1
  /\ UNCHANGED <<threat_actors, df_actors, assets, vulnerabilities, incidents, controls>>
  /\ UNCHANGED nonGenVars

GenVuln ==
  /\ gpc = "vulns"
  /\ gi <= LoopLimit(NumVulns, MaxRecords)
  /\ \E asset_id \in AssetChoices : \E cvss_score \in Scores :
       vulnerabilities' = Append(vulnerabilities,
                                 [vuln_id |-> VulnId(gi),
                                  asset_id |-> asset_id,
                                  cvss_score |-> cvss_score,
                                  severity_label |-> Severity(cvss_score)])
  /\ gi' = gi + 1
  /\ UNCHANGED <<gpc, threat_actors, df_actors, assets, df_assets, incidents, controls, csv>>
  /\ UNCHANGED nonGenVars

GenVulnsWritten ==
  /\ gpc = "vulns"
  /\ gi > LoopLimit(NumVulns, MaxRecords)
  /\ csv' = [csv EXCEPT !["VULNERABILITIES"] = Len(vulnerabilities)]
  /\ gpc' = "incidents"
  /\ gi' = 1
  /\ UNCHANGED <<threat_actors, df_actors, assets, df_assets, vulnerabilities, incidents, controls>>
  /\ UNCHANGED nonGenVars

GenIncident ==
  /\ gpc = "incidents"
  /\ gi <= LoopLimit(NumIncidents, MaxRecords)
  /\ \E asset_id \in AssetChoices : \E actor_id \in ActorChoices :
       incidents' = Append(incidents,
                           [incident_id |-> IncidentId(gi),
                            asset_id |-> asset_id,
                            threat_actor_id |-> actor_id])
  /\ gi' = gi + 1
  /\ UNCHANGED <<gpc, threat_actors, df_actors, assets, df_assets, vulnerabilities, controls, csv>>
  /\ UNCHANGED nonGenVars

GenIncidentsWritten ==
  /\ gpc = "incidents"
  /\ gi > LoopLimit(NumIncidents, MaxRecords)
  /\ csv' = [csv EXCEPT !["INCIDENTS"] = Len(incidents)]
  /\ gpc' = "controls"
  /\ gi' = 1
  /\ UNCHANGED <<threat_actors, df_actors, assets, df_assets, vulnerabilities, incidents, controls>>
  /\ UNCHANGED nonGenVars

GenControl ==
  /\ gpc = "controls"
  /\ gi <= LoopLimit(NumControls, MaxRecords)
  /\ controls' = Append(controls, [control_id |-> ControlId(gi)])
  /\ gi' = gi + 1
  /\ UNCHANGED <<gpc, threat_actors, df_actors, assets, df_assets, vulnerabilities, incidents, csv>>
  /\ UNCHANGED nonGenVars

GenControlsWritten ==
  /\ gpc = "controls"
  /\ gi > LoopLimit(NumControls, MaxRecords)
  /\ csv' = [csv EXCEPT !["SECURITY_CONTROLS"] = Len(controls)]
  /\ gpc' = "done"
  /\ UNCHANGED <<gi, threat_actors, df_actors, assets, df_assets, vulnerabilities, incidents, controls>>
  /\ UNCHANGED nonGenVars

GenNext ==
  \/ GenActor
  \/ GenActorsWritten
  \/ GenAsset
  \/ GenAssetsWritten
  \/ GenVuln
  \/ GenVulnsWritten
  \/ GenIncident
  \/ GenIncidentsWritten
  \/ GenControl
  \/ GenControlsWritten

GenSpec == GenInit /\ [][GenNext]_vars

\* ------------------------------------------ generate_data.py: date fields
\* Time is counted in hours; a date is a day number (hour \div 24). An
\* optional field is the empty set (None) or a singleton.
HoursPerDay == 24

\* time of day of datetime.now(): first and last hour of a day
NowHours == {0, 23}

\* random.randint(0, 365): days back of discovered_date / detected_at
DaysBack == 0..365

\* remediation offset drawn from 0 days on
RemediationDaysFromZero == 0..120

\* random.randint(1, 120): days from discovery to remediation
RemediationDays == 1..120

\* resolution offset drawn from 0 hours on
ResolutionHoursFromZero == 0..720

\* random.randint(1, 720): hours from detection to resolution
ResolutionHours == 1..720

\* (datetime.now() - timedelta(days=d)).strftime('%Y-%m-%d'): the day number
DiscoveredDate(t, d) == (t - HoursPerDay * d) \div HoursPerDay

\* (strptime(discovered_date, '%Y-%m-%d') + timedelta(days=r)).strftime('%Y-%m-%d')
\* if random.random() > 0.4 else None
RemediatedDate(discovered_date, r, drawn) ==
  IF drawn THEN {((discovered_date * HoursPerDay) + HoursPerDay * r) \div HoursPerDay} ELSE {}

\* (datetime.now() - timedelta(days=d)).strftime('%Y-%m-%d %H:%M:%S'): the hour
DetectedAt(t, d) == t - HoursPerDay * d

\* (strptime(detected_at, ...) + timedelta(hours=h)).strftime(...)
\* if random.random() > 0.3 else None
ResolvedAt(detected_at, h, drawn) == IF drawn THEN {detected_at + h} ELSE {}

RecInit ==
  /\ PipeInit
  /\ csv = [t \in TableSet |-> TargetCount[t]]
  /\ GenIdle
  /\ now \in NowHours
  /\ rec = [kind |-> "none"]
  /\ DashIdle

\* lines 93 and 104 of one iteration of the vulnerabilities loop
VulnDates ==
  /\ rec.kind = "none"
  /\ \E d \in DaysBack : \E r \in RemediationDays : \E drawn \in BOOLEAN :
       LET discovered_date == DiscoveredDate(now, d) IN
         rec' = [kind |-> "vulnerability",
                 discovered_date |-> discovered_date,
                 remediated_date |-> RemediatedDate(discovered_date, r, drawn)]
  /\ UNCHANGED <<now, csv, pipeVars, genVars, dashVars>>

\* lines 123 and 131 of one iteration of the incidents loop
IncidentDates ==
  /\ rec.kind = "none"
  /\ \E d \in DaysBack : \E h \in ResolutionHours : \E drawn \in BOOLEAN :
       LET detected_at == DetectedAt(now, d) IN
         rec' = [kind |-> "incident",
                 detected_at |-> detected_at,
                 resolved_at |-> ResolvedAt(detected_at, h, drawn)]
  /\ UNCHANGED <<now, csv, pipeVars, genVars, dashVars>>

RecNext ==
  \/ VulnDates
  \/ IncidentDates

RecSpec == RecInit /\ [][RecNext]_vars

\* ------------------------------------------------------------ dashboard.py
\* generate_data.py: asset_types, the values the asset_type column can hold
asset_types == <<"Server", "Endpoint", "Network Device", "Database", "Application",
                 "IoT Device">>

\* the asset types that occur in the loaded ASSETS table
TypesInUse == {asset_types[k] : k \in 1..Min(Len(asset_types), MaxTypes)}

all_severities == {"Critical", "High", "Medium", "Low"}

\* str() of the dates a user can pick in st.date_input, in calendar order
PickableDates == <<"2026-01-01", "2026-06-30">>

\* str() of datetime.now() - timedelta(days=365) and of datetime.now()
DefaultStart == "2025-11-04 09:00:00.000000"
DefaultEnd == "2026-11-04 09:00:00.000000"

\* what st.date_input can return: no date, one date, or a range
DateInputs ==
  {<<>>} \cup {<<PickableDates[i]>> : i \in 1..Len(PickableDates)}
  \cup {<<PickableDates[i], PickableDates[j]>> :
          i \in 1..Len(PickableDates), j \in 1..Len(PickableDates)}

\* "if isinstance(t3_date, tuple) and len(t3_date) == 2: ... else: ..."
DateRange(picked) ==
  IF Len(picked) = 2 THEN [start |-> picked[1], end |-> picked[2]]
  ELSE [start |-> DefaultStart, end |-> DefaultEnd]

\* the tables list of the System Status tab
StatsTables == <<"ASSETS", "VULNERABILITIES", "INCIDENTS", "SECURITY_CONTROLS",
                 "THREAT_ACTORS">>

\* the steps of one page run after the sidebar, in script order
DashPlan ==
  << [kind |-> "prefetch", id |-> "asset_types"],
     [kind |-> "static", id |-> "total_assets"],
     [kind |-> "static", id |-> "total_vulns"],
     [kind |-> "static", id |-> "critical_vulns"],
     [kind |-> "static", id |-> "total_incidents"],
     [kind |-> "static", id |-> "risk"],
     [kind |-> "assets", id |-> "assets"],
     [kind |-> "filters", id |-> "t3"],
     [kind |-> "incidents", id |-> "trends"],
     [kind |-> "incidents", id |-> "recent"],
     [kind |-> "static", id |-> "compliance"],
     [kind |-> "killchain", id |-> "killchain"],
     [kind |-> "logs", id |-> "pipeline_logs"],
     [kind |-> "count", id |-> StatsTables[1]],
     [kind |-> "count", id |-> StatsTables[2]],
     [kind |-> "count", id |-> StatsTables[3]],
     [kind |-> "count", id |-> StatsTables[4]],
     [kind |-> "count", id |-> StatsTables[5]] >>

\* the steps that hand a statement to execute_query
QuerySteps == {k \in 1..Len(DashPlan) : DashPlan[k].kind \notin {"filters", "logs"}}

\* a connection or a query may still fail
CanFailQuery == qfaults < MaxQueryFaults

\* a statement that deletes the rows it reads
SelectDeletes(tbls) == [t \in TableSet |-> <<>>]

\* cursor.execute of a SELECT, fetch_pandas_all: the tables afterwards
Select(tbls) == tbls

\* execute_query letting the exception out
QueryRaises == "crashed"

\* "except Exception as e: st.error(...); return None, 0": where control goes
QueryCaught == "run"

\* execute_query(conn, query) for the query of step dstep with the given
\* interpolated values: ok says whether a frame is returned or None
execute_query(values, ok) ==
  /\ lastQuery' = [id |-> DashPlan[dstep].id, values |-> values, ok |-> ok]
  /\ dIssued' = dIssued + 1
  /\ IF ok
       THEN /\ tables' = Select(tables)
            /\ dpc' = "run"
            /\ UNCHANGED <<qfaults, dFailed, dErrors>>
       ELSE /\ qfaults' = qfaults + 1
            /\ dFailed' = dFailed + 1
            /\ dErrors' = dErrors + 1
            /\ dpc' = QueryCaught
            /\ UNCHANGED tables
  /\ dstep' = dstep + 1

\* whether a query issued now succeeds
Outcomes == {TRUE} \cup {ok \in {FALSE} : CanFailQuery}

\* what a page run leaves alone besides the warehouse tables
pageFrame == <<pc, runs, faults, removals, csv, logVars, connVars, clock, setupVars,
               ingestVars, aidx, verifyVars, issued, tablesAtStart, logAtStart, history,
               exitCode, genVars, recVars, typesInDb>>

\* the log a run leaves that loaded and verified all five tables
CleanRunLog ==
  << LogHeader,
     [kind |-> "row", cells |-> <<<<1, 6>>, "THREAT_ACTORS", <<"DATA_LOAD">>, 2, 50, "SUCCESS">>],
     [kind |-> "row", cells |-> <<<<1, 9>>, "ASSETS", <<"DATA_LOAD">>, 3, 200, "SUCCESS">>],
     [kind |-> "row", cells |-> <<<<1, 15>>, "VULNERABILITIES", <<"DATA_LOAD">>, 6, 500, "SUCCESS">>],
     [kind |-> "row", cells |-> <<<<1, 19>>, "INCIDENTS", <<"DATA_LOAD">>, 4, 300, "SUCCESS">>],
     [kind |-> "row", cells |-> <<<<1, 21>>, "SECURITY_CONTROLS", <<"DATA_LOAD">>, 2, 100, "SUCCESS">>],
     [kind |-> "row", cells |-> <<<<1, 21>>, "ANALYTICS", <<"CREATE_", "V_RISK">>, 1, 0, "SUCCESS">>],
     [kind |-> "row", cells |-> <<<<1, 22>>, "ANALYTICS", <<"CREATE_", "T_SUMMARY">>, 1, 0, "SUCCESS">>],
     [kind |-> "row", cells |-> <<<<1, 30>>, "PIPELINE", <<"VERIFICATION">>, 0, 1150, "SUCCESS">>] >>

\* what pipeline runs leave behind: nothing (no run), a header-only log and
\* empty tables (a run that failed to connect), a full log and loaded tables
LeftBehind ==
  { [exists |-> FALSE, log |-> <<>>, loaded |-> FALSE],
    [exists |-> TRUE, log |-> <<LogHeader>>, loaded |-> FALSE],
    [exists |-> TRUE, log |-> CleanRunLog, loaded |-> TRUE] }

DashInit ==
  /\ \E left \in LeftBehind :
       /\ logExists = left.exists
       /\ pipelineLog = left.log
       /\ tables = [t \in TableSet |->
                      IF left.loaded THEN BatchesFrom(1, 0, TargetCount[t]) ELSE <<>>]
       /\ typesInDb \in IF left.loaded THEN (SUBSET TypesInUse) \ {{}} ELSE {{}}
  /\ pc = "idle"
  /\ runs = 0
  /\ faults = 0
  /\ removals = 0
  /\ conn = "none"
  /\ closes = 0
  /\ exitCode = 0
  /\ clock = 0
  /\ sfile = 1
  /\ sidx = 1
  /\ tIdx = 1
  /\ row_count = 0
  /\ batchI = 0
  /\ start_time = 0
  /\ aidx = 1
  /\ vIdx = 1
  /\ total_rows = 0
  /\ counts = [t \in TableSet |-> Absent]
  /\ issued = <<>>
  /\ tablesAtStart = tables
  /\ logAtStart = 0
  /\ history = <<>>
  /\ csv = TargetCount
  /\ GenIdle
  /\ RecIdle
  /\ dpc = "idle"
  /\ pageRuns = 0
  /\ qfaults = 0
  /\ dcache = "empty"
  /\ PageFresh

\* a widget that also returns text typed by the user
MultiselectFreeText(options) == SUBSET (options \cup {"x' OR '1'='1"})

\* st.multiselect(label, options, default=options): what it can return
Multiselect(options) == SUBSET options

\* the sidebar going on without a connection
SidebarContinue == "run"

\* "else: st.error(...); st.stop()" of the sidebar: where control goes
SidebarStop == "stopped"

\* the script starts: first load of the page, or a rerun after a widget change
PageRun ==
  /\ dpc \in {"idle", "done", "stopped", "crashed"}
  /\ pageRuns < MaxPageRuns
  /\ pageRuns' = pageRuns + 1
  /\ dpc' = "sidebar"
  /\ dstep' = 1
  /\ dconn' = "none"
  /\ all_asset_types' = {}
  /\ t3_filters' = NoFilters
  /\ lastQuery' = NoQuery
  /\ dIssued' = 0
  /\ dFailed' = 0
  /\ dErrors' = 0
  /\ status_metrics' = NoMetrics
  /\ UNCHANGED <<qfaults, dcache, tables, pageFrame>>

\* "conn = get_snowflake_connection()" and the if/else of the sidebar: the
\* cached value when there is one, else a connection attempt whose result
\* (None included) is cached; the st.error of the function is shown when it
\* runs and may be shown again when its cached result is used
get_snowflake_connection ==
  /\ dpc = "sidebar"
  /\ \E got \in IF dcache = "empty"
                  THEN {"open"} \cup {c \in {"none"} : CanFailQuery}
                  ELSE {dcache} :
       /\ dcache' = got
       /\ dconn' = got
       /\ qfaults' = IF dcache = "empty" /\ got = "none" THEN qfaults + 1 ELSE qfaults
       /\ IF got = "open"
            THEN /\ dpc' = "run"
                 /\ UNCHANGED dErrors
            ELSE /\ dpc' = SidebarStop
                 /\ dErrors' \in IF dcache = "empty" THEN {2} ELSE {1, 2}
  /\ UNCHANGED <<dstep, pageRuns, all_asset_types, t3_filters, lastQuery, dIssued, dFailed,
                 status_metrics, tables, pageFrame>>

\* lines 159-160: the asset types for the filter defaults
Prefetch ==
  /\ dpc = "run"
  /\ dstep <= Len(DashPlan)
  /\ DashPlan[dstep].kind = "prefetch"
  /\ \E ok \in Outcomes :
       /\ execute_query({}, ok)
       /\ all_asset_types' = IF ok THEN typesInDb ELSE {}
  /\ UNCHANGED <<pageRuns, dcache, dconn, t3_filters, status_metrics, pageFrame>>

\* a query whose text is a literal
StaticQuery ==
  /\ dpc = "run"
  /\ dstep <= Len(DashPlan)
  /\ DashPlan[dstep].kind = "static"
  /\ \E ok \in Outcomes : execute_query({}, ok)
  /\ UNCHANGED <<pageRuns, dcache, dconn, all_asset_types, t3_filters, status_metrics,
                 pageFrame>>

\* tab 2: the multiselect over all_asset_types and the assets query
AssetsQuery ==
  /\ dpc = "run"
  /\ dstep <= Len(DashPlan)
  /\ DashPlan[dstep].kind = "assets"
  /\ \E t2_asset_types \in Multiselect(all_asset_types) : \E ok \in Outcomes :
       execute_query(t2_asset_types, ok)
  /\ UNCHANGED <<pageRuns, dcache, dconn, all_asset_types, t3_filters, status_metrics,
                 pageFrame>>

\* tab 3: the date input and the two multiselects
IncidentFilters ==
  /\ dpc = "run"
  /\ dstep <= Len(DashPlan)
  /\ DashPlan[dstep].kind = "filters"
  /\ \E t3_date \in DateInputs : \E t3_asset_types \in Multiselect(all_asset_types) :
     \E t3_severity \in Multiselect(all_severities) :
       t3_filters' = [start |-> DateRange(t3_date).start, end |-> DateRange(t3_date).end,
                      asset_types |-> t3_asset_types, severity |-> t3_severity]
  /\ dstep' = dstep + 1
  /\ UNCHANGED <<dpc, pageRuns, qfaults, dcache, dconn, all_asset_types, lastQuery, dIssued,
                 dFailed, dErrors, status_metrics, tables, pageFrame>>

\* tab 3: trends_query and recent_query, built from t3_dc, t3_at and t3_sv
IncidentsQuery ==
  /\ dpc = "run"
  /\ dstep <= Len(DashPlan)
  /\ DashPlan[dstep].kind = "incidents"
  /\ \E ok \in Outcomes :
       execute_query({t3_filters.start, t3_filters.end} \cup t3_filters.asset_types
                       \cup t3_filters.severity, ok)
  /\ UNCHANGED <<pageRuns, dcache, dconn, all_asset_types, t3_filters, status_metrics,
                 pageFrame>>

\* tab 5: the date input and killchain_query, built from t5_dc
KillChainQuery ==
  /\ dpc = "run"
  /\ dstep <= Len(DashPlan)
  /\ DashPlan[dstep].kind = "killchain"
  /\ \E t5_date \in DateInputs : \E ok \in Outcomes :
       execute_query({DateRange(t5_date).start, DateRange(t5_date).end}, ok)
  /\ UNCHANGED <<pageRuns, dcache, dconn, all_asset_types, t3_filters, status_metrics,
                 pageFrame>>

RECURSIVE SumLatency(_)
\* logs_df['latency_ms'].sum() over the rows of a log
SumLatency(log) ==
  IF log = <<>> THEN 0
  ELSE (IF Head(log).kind = "row" THEN Head(log).cells[4] ELSE 0) + SumLatency(Tail(log))

\* pd.read_csv(logs_path): the rows under the header line
read_csv(log) == SelectSeq(log, LAMBDA l : l.kind = "row")

\* tab 6: the three metrics of the log file; int() of the NaN mean of an
\* empty frame raises
SystemStatusLog ==
  /\ dpc = "run"
  /\ dstep <= Len(DashPlan)
  /\ DashPlan[dstep].kind = "logs"
  /\ IF logExists
       THEN LET logs_df == read_csv(pipelineLog) IN
              IF Len(logs_df) = 0
                THEN /\ dpc' = "crashed"
                     /\ status_metrics' = [shown |-> FALSE, total |-> 0, successful |-> 0,
                                           avg_latency |-> 0]
                ELSE /\ dpc' = "run"
                     /\ status_metrics' =
                          [shown |-> TRUE,
                           total |-> Len(logs_df),
                           successful |->
                             Len(SelectSeq(logs_df, LAMBDA l : l.cells[6] = "SUCCESS")),
                           avg_latency |-> SumLatency(logs_df) \div Len(logs_df)]
       ELSE /\ dpc' = "run"
            /\ UNCHANGED status_metrics
  /\ dstep' = dstep + 1
  /\ UNCHANGED <<pageRuns, qfaults, dcache, dconn, all_asset_types, t3_filters, lastQuery,
                 dIssued, dFailed, dErrors, tables, pageFrame>>

\* tab 6: one iteration of "for col, table in zip(stats_cols, tables)"
TableCountQuery ==
  /\ dpc = "run"
  /\ dstep <= Len(DashPlan)
  /\ DashPlan[dstep].kind = "count"
  /\ \E ok \in Outcomes : execute_query({DashPlan[dstep].id}, ok)
  /\ UNCHANGED <<pageRuns, dcache, dconn, all_asset_types, t3_filters, status_metrics,
                 pageFrame>>

\* the script reaches its last line
PageDone ==
  /\ dpc = "run"
  /\ dstep = Len(DashPlan) + 1
  /\ dpc' = "done"
  /\ UNCHANGED <<dstep, pageRuns, qfaults, dcache, dconn, all_asset_types, t3_filters,
                 lastQuery, dIssued, dFailed, dErrors, status_metrics, tables, pageFrame>>

DashNext ==
  \/ PageRun
  \/ get_snowflake_connection
  \/ Prefetch
  \/ StaticQuery
  \/ AssetsQuery
  \/ IncidentFilters
  \/ IncidentsQuery
  \/ KillChainQuery
  \/ SystemStatusLog
  \/ TableCountQuery
  \/ PageDone

DashSpec == DashInit /\ [][DashNext]_vars

\* ===================================================================== claims
\* lines appended to the log by the current run
RunLog == SubSeq(pipelineLog, logAtStart + 1, Len(pipelineLog))

\* number of log rows with the given operation
CountOp(log, op) ==
  Cardinality({k \in 1..Len(log) : log[k].kind = "row" /\ log[k].cells[3] = op})

HeaderCount == Cardinality({k \in 1..Len(pipelineLog) : pipelineLog[k].kind = "header"})

Present == {t \in TableSet : csv[t] # Absent}

TableIndex(t) == CHOOSE k \in 1..NumTables : TableNames[k] = t

AllOk == \A k \in 1..Len(issued) : issued[k].ok

Failed(kinds) == {k \in 1..Len(issued) : issued[k].kind \in kinds /\ ~issued[k].ok}

\* ingest_data has returned normally in the current run
IngestReturned ==
  \/ pc \in {"analytics_open", "analytics", "verify", "finish"}
  \/ /\ pc \in {"except", "exited"}
     /\ \E k \in 1..Len(issued) : issued[k].kind = "open" /\ issued[k].target = QueriesFileName

\* the last run ended (and none has started since)
RunEnded == pc = "exited"

\* C1: when the loader returns, every table whose source file exists holds
\* exactly as many rows as the file has, whatever it held when the run began.
C1_ReloadRowCount ==
  pc = "analytics_open" => \A t \in Present : RowCount(tables[t]) = csv[t]

\* a later run reloads a table that an aborted run had left partly filled
C1_Witness ==
  /\ pc = "analytics_open"
  /\ runs >= 2
  /\ \E t \in Present : /\ RowCount(tablesAtStart[t]) > 0
                         /\ RowCount(tablesAtStart[t]) # csv[t]
                         /\ RowCount(tables[t]) = csv[t]

\* runs that exited with code 0 with all five files present
CompletedRuns ==
  {i \in 1..Len(history) : history[i].exit = 0 /\ history[i].present = NumTables}

\* ... and whose verifier obtained all five counts
VerifiedRuns == {i \in CompletedRuns : ~history[i].verifyFailed}

C3_LoadFailFast ==
  \A k \in Failed({"delete", "insert"}) :
    /\ k = Len(issued)
    /\ pc \in {"except", "exited"}
    /\ \A j \in 1..Len(RunLog) :
         ~(RunLog[j].cells[3] = <<"DATA_LOAD">> /\ RunLog[j].cells[2] = issued[k].target)
    /\ \A u \in TableSet :
         TableIndex(u) > TableIndex(issued[k].target) => tables[u] = tablesAtStart[u]
    /\ CountOp(RunLog, <<"VERIFICATION">>) = 0

\* a run ended by a failed statement of a table that is not the last one
C3_Witness ==
  /\ RunEnded
  /\ exitCode = 1
  /\ \E k \in Failed({"delete", "insert"}) : TableIndex(issued[k].target) < NumTables

\* C4: a missing source file is skipped without raising, and the loader
\* still deletes and fully loads every table whose file exists.
C4_MissingFileSkipped ==
  /\ AllOk => pc # "except"
  /\ IngestReturned =>
       \A t \in TableSet :
         IF csv[t] = Absent
           THEN \E k \in 1..Len(issued) : issued[k].kind = "skip" /\ issued[k].target = t
           ELSE /\ \E k \in 1..Len(issued) :
                     issued[k].kind = "delete" /\ issued[k].target = t /\ issued[k].ok
                /\ tables[t] = BatchesFrom(runs, 0, csv[t])

\* the loader returned with one file missing, the other four loaded
C4_Witness ==
  /\ pc = "analytics_open"
  /\ Cardinality(Present) = 4
  /\ \A t \in Present : RowCount(tables[t]) = TargetCount[t]
  /\ csv["ASSETS"] = Absent

\* indexes of the fragments of the analytics file that hold SQL
ExecutableFragments == {k \in 1..Len(QueriesSql) : SqlLines(QueriesSql[k]) # <<>>}

AnalyticsEvents == SelectSeq(issued, LAMBDA e : e.kind = "analytics")

\* C5: every fragment of the analytics file that holds SQL is executed, once
\* and in file order, whether or not earlier ones failed, and a failing one
\* never ends the run with an exception.
C5_AnalyticsContinues ==
  /\ \A k \in 1..Len(issued) :
       (issued[k].kind = "analytics" /\ ~issued[k].ok) => pc # "except" /\ (RunEnded => exitCode = 0)
  /\ \A k \in 1..Len(AnalyticsEvents) : \A j \in 1..Len(AnalyticsEvents) :
       k < j => AnalyticsEvents[k].arg < AnalyticsEvents[j].arg
  /\ pc \in {"verify", "finish"} =>
       {AnalyticsEvents[k].arg : k \in 1..Len(AnalyticsEvents)} = ExecutableFragments

\* the materializer returned after its first statement failed and later ones ran
C5_Witness ==
  /\ pc = "verify"
  /\ Len(AnalyticsEvents) = Cardinality(ExecutableFragments)
  /\ ~AnalyticsEvents[1].ok
  /\ AnalyticsEvents[2].ok /\ AnalyticsEvents[3].ok

\* the statements of the two provisioning files, in execution order
RECURSIVE StmtsOf(_, _)
StmtsOf(f, k) ==
  IF k > Len(SetupFiles[f]) THEN <<>>
  ELSE (IF SetupFiles[f][k] = "" THEN <<>> ELSE <<[target |-> SqlFileName(f), arg |-> k]>>)
       \o StmtsOf(f, k + 1)

ProvisionOrder == StmtsOf(1, 1) \o StmtsOf(2, 1)

SetupEvents == SelectSeq(issued, LAMBDA e : e.kind = "setup")

\* C6: provisioning statements run in file order, the setup file before the
\* schema file; the first failing one is the last call of the run and the run
\* exits with a non-zero code.
C6_ProvisionFailFast ==
  /\ Len(SetupEvents) <= Len(ProvisionOrder)
  /\ \A k \in 1..Len(SetupEvents) :
       /\ SetupEvents[k].target = ProvisionOrder[k].target
       /\ SetupEvents[k].arg = ProvisionOrder[k].arg
  /\ \A k \in Failed({"setup"}) :
       /\ k = Len(issued)
       /\ pc \in {"except", "exited"}
       /\ RunEnded => exitCode = 1

\* a run ended by a failing statement of the first file, the rest not executed
C6_Witness ==
  /\ RunEnded
  /\ exitCode = 1
  /\ Failed({"setup"}) # {}
  /\ Len(SetupEvents) = 1

\* C7: the exit code is non-zero exactly when connecting, provisioning,
\* loading or reading the analytics file raised; a failed analytics
\* statement or a failed verifier query leaves it at 0.
C7_ExitCode ==
  RunEnded =>
    /\ exitCode \in {0, 1}
    /\ exitCode # 0 <=> Failed({"connect", "open", "setup", "delete", "insert"}) # {}

\* a run whose verifier query failed exited with 0
C7_Witness ==
  /\ RunEnded
  /\ exitCode = 0
  /\ Failed({"count"}) # {}

VerificationRows == SelectSeq(RunLog, LAMBDA l : l.cells[3] = <<"VERIFICATION">>)

\* C8: with the five files at the generator's cardinalities and a run in
\* which nothing fails, the verifier counts 50, 200, 500, 300 and 100 rows and
\* appends exactly one VERIFICATION row whose record_count is their sum, 1150.
C8_VerifiedCounts ==
  (RunEnded /\ exitCode = 0 /\ AllOk /\ csv = TargetCount) =>
    /\ counts["THREAT_ACTORS"] = 50
    /\ counts["ASSETS"] = 200
    /\ counts["VULNERABILITIES"] = 500
    /\ counts["INCIDENTS"] = 300
    /\ counts["SECURITY_CONTROLS"] = 100
    /\ Len(VerificationRows) = 1
    /\ VerificationRows[1].cells[5] = 1150
    /\ VerificationRows[1].cells[5] =
         counts["THREAT_ACTORS"] + counts["ASSETS"] + counts["VULNERABILITIES"]
         + counts["INCIDENTS"] + counts["SECURITY_CONTROLS"]

\* a clean second run over tables an aborted run had left partly filled
C8_Witness ==
  /\ RunEnded /\ exitCode = 0 /\ AllOk /\ csv = TargetCount
  /\ runs = 2
  /\ \E t \in TableSet : RowCount(tablesAtStart[t]) # TargetCount[t]
  /\ Len(VerificationRows) = 1

\* C9 (GenSpec): every generated vulnerability has a score between 1.0 and
\* 10.0 and the label the thresholds give it: 9.0 and above Critical, 7.0 to
\* 8.9 High, 4.0 to 6.9 Medium, below 4.0 Low (scores in tenths).
C9_SeverityThresholds ==
  \A k \in 1..Len(vulnerabilities) :
    LET v == vulnerabilities[k] IN
      /\ v.cvss_score \in 10..100
      /\ v.cvss_score \in 90..100 => v.severity_label = "Critical"
      /\ v.cvss_score \in 70..89 => v.severity_label = "High"
      /\ v.cvss_score \in 40..69 => v.severity_label = "Medium"
      /\ v.cvss_score \in 10..39 => v.severity_label = "Low"

\* a vulnerability scored exactly 7.0 was generated and labelled High
C9_Witness ==
  /\ gpc = "done"
  /\ \E k \in 1..Len(vulnerabilities) :
       vulnerabilities[k].cvss_score = 70 /\ vulnerabilities[k].severity_label = "High"

\* C10 (GenSpec): every asset_id of a vulnerability or incident is the id of a
\* generated asset, every threat_actor_id of an incident is the id of a
\* generated actor, and the actor and asset loops have finished before the
\* first vulnerability or incident exists.
C10_ReferentialClosure ==
  /\ \A k \in 1..Len(vulnerabilities) :
       \E a \in 1..Len(assets) : assets[a].asset_id = vulnerabilities[k].asset_id
  /\ \A k \in 1..Len(incidents) :
       /\ \E a \in 1..Len(assets) : assets[a].asset_id = incidents[k].asset_id
       /\ \E a \in 1..Len(threat_actors) :
            threat_actors[a].actor_id = incidents[k].threat_actor_id
  /\ (vulnerabilities # <<>> \/ incidents # <<>>) =>
       /\ gpc \notin {"actors", "assets"}
       /\ Len(threat_actors) = LoopLimit(NumActors, MaxPool)
       /\ Len(assets) = LoopLimit(NumAssets, MaxPool)
       /\ csv["THREAT_ACTORS"] = Len(threat_actors)
       /\ csv["ASSETS"] = Len(assets)

\* the generator finished with a vulnerability and an incident generated
C10_Witness ==
  /\ gpc = "done"
  /\ vulnerabilities # <<>>
  /\ incidents # <<>>
  /\ incidents[1].asset_id = AssetId(1)
  /\ incidents[1].threat_actor_id = ActorId(1)

\* C11 (RecSpec): a remediated_date is at least one day after the
\* discovered_date and a resolved_at at least one hour after the detected_at;
\* a record for which none was drawn carries None.
C11_LaterThanOrigin ==
  /\ rec.kind = "vulnerability" =>
       /\ Cardinality(rec.remediated_date) <= 1
       /\ \A x \in rec.remediated_date :
            x > rec.discovered_date /\ x - rec.discovered_date >= 1
  /\ rec.kind = "incident" =>
       /\ Cardinality(rec.resolved_at) <= 1
       /\ \A x \in rec.resolved_at :
            x > rec.detected_at /\ x - rec.detected_at >= 1

\* a vulnerability remediated the day after it was discovered today
C11_Witness ==
  /\ rec.kind = "vulnerability"
  /\ now = 23
  /\ rec.discovered_date = 0
  /\ rec.remediated_date = {1}

\* the step of main a call belongs to: connect, provision, load, analytics,
\* verify
StepOf(e) ==
  CASE e.kind = "connect" -> 1
    [] e.kind = "setup" -> 2
    [] e.kind = "open" -> IF e.target = QueriesFileName THEN 4 ELSE 2
    [] e.kind \in {"skip", "delete", "insert"} -> 3
    [] e.kind = "analytics" -> 4
    [] e.kind = "count" -> 5

\* the calls whose failure is fatal to the run
FatalKinds == {"connect", "open", "setup", "delete", "insert"}

\* positions of the calls of the current run that belong to step n
StepEvents(n) == {k \in 1..Len(issued) : StepOf(issued[k]) = n}

\* C16: the calls of a run are those of connect, provision, load, analytics
\* and verify in that order; a step starts only when the previous one is
\* complete and none of its calls failed fatally; in a run where connect or a
\* provisioning statement failed no DELETE and no INSERT is issued.
C16_StepOrder ==
  /\ \A k \in 1..(Len(issued) - 1) :
       /\ StepOf(issued[k]) <= StepOf(issued[k + 1])
       /\ issued[k].kind \in FatalKinds => issued[k].ok
  /\ issued # <<>> => issued[1].kind = "connect"
  /\ StepEvents(3) # {} => Len(SetupEvents) = Len(ProvisionOrder)
  /\ StepEvents(4) # {} => {issued[k].target : k \in StepEvents(3)} = TableSet
  /\ StepEvents(5) # {} =>
       {issued[k].arg : k \in {j \in StepEvents(4) : issued[j].kind = "analytics"}}
         = ExecutableFragments
  /\ (\E k \in 1..Len(issued) : ~issued[k].ok /\ StepOf(issued[k]) <= 2) =>
       /\ \A k \in 1..Len(issued) : issued[k].kind \notin {"delete", "insert"}
       /\ tables = tablesAtStart

\* a run reached its verifier after all four earlier steps, and the run
\* before it had stopped at a failed provisioning statement
C16_Witness ==
  /\ pc = "finish"
  /\ runs = 2
  /\ history[1].exit = 1
  /\ tablesAtStart = [t \in TableSet |-> <<>>]
  /\ \A n \in 1..5 : StepEvents(n) # {}

\* the first k batches of batch_size rows of a file, as run r inserts them
FirstBatches(r, k) == [j \in 1..k |-> [run |-> r, lo |-> 100 * (j - 1) + 1, hi |-> 100 * j]]

\* C17: when the k-th batch INSERT of a table (counted from 0) fails, the
\* table holds exactly the first 100*k rows of its file, in file order, and
\* none of the rows it held when the run began.
C17_PartialLoad ==
  \A e \in Failed({"insert"}) :
    LET t == issued[e].target
        k == issued[e].arg \div 100
    IN /\ issued[e].arg = 100 * k
       /\ 100 * k < csv[t]
       /\ tables[t] = FirstBatches(runs, k)
       /\ RowCount(tables[t]) = 100 * k
       /\ \A b \in 1..Len(tables[t]) : tables[t][b].run = runs
       /\ \E d \in 1..(e - 1) :
            issued[d].kind = "delete" /\ issued[d].target = t /\ issued[d].ok

\* the third batch of a table failed in a run that found the table loaded
C17_Witness ==
  /\ RunEnded
  /\ runs = 2
  /\ \E e \in Failed({"insert"}) :
       /\ issued[e].arg = 200
       /\ RowCount(tablesAtStart[issued[e].target]) = csv[issued[e].target]
       /\ RowCount(tables[issued[e].target]) = 200

\* the features log_pipeline is called with
LogFeatures == TableSet \cup {"ANALYTICS", "PIPELINE"}

\* a line log_pipeline writes: six cells in the order of the header
IsLogRow(l) ==
  /\ l.kind = "row"
  /\ Len(l.cells) = Len(fieldnames)
  /\ l.cells[1] = <<runs, l.cells[1][2]>>
  /\ l.cells[2] \in LogFeatures
  /\ l.cells[3] \in Seq(STRING)
  /\ l.cells[4] \in Nat
  /\ l.cells[5] \in Nat
  /\ l.cells[6] = "SUCCESS"

\* C18: every step leaves the lines already in the log as they are and adds
\* at most one line at the end: a six-cell row (timestamp, feature,
\* operation, latency_ms, record_count, status), or the header when the file
\* did not exist; an existing file is never truncated or rewritten.
C18_AppendOnly ==
  [][/\ logExists => logExists'
     /\ \/ pipelineLog' = pipelineLog
        \/ /\ logExists
           /\ Len(pipelineLog') = Len(pipelineLog) + 1
           /\ SubSeq(pipelineLog', 1, Len(pipelineLog)) = pipelineLog
           /\ IsLogRow(pipelineLog'[Len(pipelineLog')])
        \/ /\ ~logExists
           /\ pipelineLog = <<>>
           /\ pipelineLog' = <<LogHeader>>]_vars

\* a second run has appended rows after the rows of the first
C18_Witness ==
  /\ runs = 2
  /\ logAtStart > 1
  /\ Len(pipelineLog) > logAtStart + 1
  /\ pipelineLog[1] = LogHeader
  /\ \A k \in 2..Len(pipelineLog) : IsLogRow([pipelineLog[k] EXCEPT !.cells[1][1] = runs])

\* the comment-stripped statement begins with CREATE: it creates an object
CreatesObject(parts) == parts # <<>> /\ parts[1] = "CREATE"

\* the rows the materializer wrote in the current run
AnalyticsRows == SelectSeq(RunLog, LAMBDA l : l.cells[2] = "ANALYTICS")

\* the statements of the current run that executed successfully and create
\* an object, in execution order
CreatedOk ==
  SelectSeq(AnalyticsEvents,
            LAMBDA e : e.ok /\ CreatesObject(SqlLines(QueriesSql[e.arg])))

\* C19 as stated: the materializer's rows of a run are, in order, one row per
\* successfully executed statement that creates an object, with operation
\* CREATE_<name>, <name> the token following VIEW (else TABLE) of the
\* comment-stripped statement; a failed statement has no row and a fragment
\* of comment lines or whitespace is neither executed nor logged.
C19_Original ==
  pc \in {"verify", "finish", "exited"} =>
    /\ Len(AnalyticsRows) = Len(CreatedOk)
    /\ \A k \in 1..Len(AnalyticsRows) :
         AnalyticsRows[k].cells[3] =
           <<"CREATE_", ObjectName(SqlLines(QueriesSql[CreatedOk[k].arg]))>>
    /\ \A k \in 1..Len(AnalyticsEvents) : AnalyticsEvents[k].arg \in ExecutableFragments

\* the tables whose file the loader found missing in the current run
SkippedTables == {issued[k].target : k \in {j \in 1..Len(issued) : issued[j].kind = "skip"}}

\* rows held by all five tables
RECURSIVE TotalRows(_)
TotalRows(k) == IF k = 0 THEN 0 ELSE RowCount(tables[TableNames[k]]) + TotalRows(k - 1)

\* C20: a table whose file is missing is left as the run found it: no DELETE
\* or INSERT is issued against it, no DATA_LOAD row is written for it, and
\* the VERIFICATION total of the run counts the rows it still holds.
C20_StaleRowsKept ==
  \A t \in SkippedTables :
    /\ csv[t] = Absent
    /\ \A k \in 1..Len(issued) :
         issued[k].kind \in {"delete", "insert"} => issued[k].target # t
    /\ tables[t] = tablesAtStart[t]
    /\ \A j \in 1..Len(RunLog) :
         ~(RunLog[j].cells[3] = <<"DATA_LOAD">> /\ RunLog[j].cells[2] = t)
    /\ \A j \in 1..Len(VerificationRows) :
         /\ counts[t] = RowCount(tablesAtStart[t])
         /\ VerificationRows[j].cells[5] = TotalRows(NumTables)

\* a run verified a table whose file was removed after an earlier run had
\* loaded it
C20_Witness ==
  /\ RunEnded
  /\ runs = 2
  /\ Len(VerificationRows) = 1
  /\ \E t \in SkippedTables :
       /\ RowCount(tablesAtStart[t]) = TargetCount[t]
       /\ VerificationRows[1].cells[5] = 1150

\* the query steps of the plan before step k
QueriesBefore(k) == Cardinality({j \in QuerySteps : j < k})

\* C12 (DashSpec): every failed query is rendered as one inline error and the
\* script goes on: the statements issued so far are those of all the query
\* steps passed, failed or not, a page run that ends has issued all of them,
\* and a run is only ever cut short by the log metrics, never by a query.
C12_QueryFailureInline ==
  /\ dconn = "open" => dErrors = dFailed
  /\ dpc \in {"run", "done", "crashed"} => dIssued = QueriesBefore(dstep)
  /\ dpc = "done" => dIssued = Cardinality(QuerySteps)
  /\ dpc = "crashed" =>
       /\ DashPlan[dstep - 1].kind = "logs"
       /\ logExists
       /\ read_csv(pipelineLog) = <<>>
  /\ ~lastQuery.ok => /\ dFailed >= 1
                       /\ lastQuery.id = "asset_types" => all_asset_types = {}

\* a page run ended after its prefetch and the last count query had failed
C12_Witness ==
  /\ dpc = "done"
  /\ dFailed = 2
  /\ dErrors = 2
  /\ all_asset_types = {}
  /\ typesInDb # {}
  /\ ~lastQuery.ok
  /\ dIssued = 16

\* C13 (DashSpec): a page run without a connection shows an inline error,
\* stops in the sidebar and issues no query: no prefetch and no tab.
C13_NoConnectionNoQuery ==
  /\ (dpc # "sidebar" /\ dpc # "idle" /\ dconn = "none") =>
       /\ dpc = "stopped"
       /\ dErrors >= 1
       /\ dIssued = 0
       /\ dstep = 1
       /\ lastQuery = NoQuery
       /\ all_asset_types = {}
  /\ dpc = "stopped" => dconn = "none"

\* the second page run of a session stopped on the cached failed connection
C13_Witness ==
  /\ dpc = "stopped"
  /\ pageRuns = 2
  /\ qfaults = 1
  /\ dcache = "none"
  /\ dIssued = 0

\* the texts str() gives for the dates of a date range
DateTexts ==
  {PickableDates[i] : i \in 1..Len(PickableDates)} \cup {DefaultStart, DefaultEnd}

\* C14 as stated: every value interpolated into a statement is a member of
\* all_asset_types or of all_severities.
C14_Original == lastQuery.values \subseteq (all_asset_types \cup all_severities)

\* C14 amended: every value interpolated into a statement is a member of
\* all_asset_types or all_severities, a date of the date picker or of its
\* default range, or one of the five literal table names; the asset query
\* interpolates asset types only and no value is text typed by the user.
C14_Whitelisted ==
  /\ lastQuery.values \subseteq
       (all_asset_types \cup all_severities \cup DateTexts
          \cup {StatsTables[k] : k \in 1..Len(StatsTables)})
  /\ lastQuery.id = "assets" => lastQuery.values \subseteq all_asset_types
  /\ lastQuery.id \in {"trends", "recent"} =>
       /\ (lastQuery.values \ DateTexts) \subseteq (all_asset_types \cup all_severities)
       /\ lastQuery.values \cap DateTexts # {}
  /\ lastQuery.id = "killchain" =>
       lastQuery.values # {} /\ lastQuery.values \subseteq DateTexts
  /\ all_asset_types \subseteq typesInDb

\* the trends query was issued with a picked date range, an asset type and a
\* severity
C14_Witness ==
  /\ lastQuery.id = "trends"
  /\ lastQuery.values = {"2026-01-01", "2026-06-30", "Server", "Critical"}
  /\ all_asset_types = {"Server"}

\* C15 (DashSpec): no step of a page run changes the rows of a warehouse
\* table or the pipeline log file.
C15_ReadOnly ==
  [][/\ tables' = tables
     /\ pipelineLog' = pipelineLog
     /\ logExists' = logExists]_vars

\* a second page run ended over loaded tables after reading the log
C15_Witness ==
  /\ dpc = "done"
  /\ pageRuns = 2
  /\ status_metrics.shown
  /\ status_metrics.total = 8
  /\ dIssued = 16
  /\ \A t \in TableSet : RowCount(tables[t]) = TargetCount[t]
  /\ pipelineLog = CleanRunLog

\* the step of the page run that reads the log file
LogStep == CHOOSE k \in 1..Len(DashPlan) : DashPlan[k].kind = "logs"

\* C21 as stated: whatever log file the pipeline left, once a page run has
\* passed the System Status metrics it has not raised, and when the file
\* exists the total, the SUCCESS count and the average latency are shown.
C21_Original ==
  (dpc \in {"run", "done", "crashed"} /\ dstep > LogStep) =>
    /\ dpc # "crashed"
    /\ logExists =>
         /\ status_metrics.shown
         /\ status_metrics.total = Len(read_csv(pipelineLog))
         /\ status_metrics.successful <= status_metrics.total

\* connect_snowflake returned a connection in the current run
Connected == \E k \in 1..Len(issued) : issued[k].kind = "connect" /\ issued[k].ok

\* C22: while main is inside its try block nothing has been closed; when the
\* process has exited, a connection that was obtained has been closed exactly
\* once, whether the run completed or failed in provisioning, loading or
\* analytics, and when connecting failed no close was attempted.
C22_ClosedOnce ==
  /\ pc \notin {"idle", "exited"} =>
       /\ closes = 0
       /\ conn = (IF Connected THEN "open" ELSE "none")
  /\ RunEnded =>
       IF Connected
         THEN closes = 1 /\ conn = "closed"
         ELSE closes = 0 /\ conn = "none" /\ Failed({"connect"}) # {} /\ exitCode = 1

\* a run that failed in the loader exited with its connection closed once,
\* after a run that could not connect
C22_Witness ==
  /\ RunEnded
  /\ runs = 2
  /\ history[1].exit = 1
  /\ tablesAtStart = [t \in TableSet |-> <<>>]
  /\ Failed({"delete", "insert"}) # {}
  /\ exitCode = 1
  /\ closes = 1
  /\ conn = "closed"

====
